---- MODULE Spec2Model ----
(***************************************************************************)
(* The VoiceConnection wrapper of Gamatek/discord-voice-connection.        *)
(*                                                                         *)
(* The repository holds two versions of the class:                         *)
(*   "promise" : src/VoiceConnection.js  (new Promise((resolve, reject)))  *)
(*   "async"   : src/unnamed/part_000    (async methods, try/catch)        *)
(* The variable `variant` fixes which of the two runs; every operation is  *)
(* translated for both.                                                    *)
(*                                                                         *)
(* The wrapped library (@discordjs/voice) is the environment: its          *)
(* registry of connections (one per guild), the connections' and players'  *)
(* status machines and their one-time events.  A status change emits its   *)
(* event synchronously, so a once-listener runs in the step that changes   *)
(* the status.  The registry holds at most one connection per guild and a  *)
(* destroyed connection leaves it for good, so the model keeps the state   *)
(* of the registered connection of each guild only ("none": the registry   *)
(* holds none); a join left listening on a destroyed connection is marked  *)
(* "orphaned".                                                             *)
(***************************************************************************)
EXTENDS Naturals, Sequences, FiniteSets

\* ------------------------------------------------------------------ bounds
MaxPlays == 2      \* play calls (each creates one player and one resource)

\* --------------------------------------------------------------- constants
DefaultVolume == 1 \* play(stream, volume = 1)

Sessions == {"s1", "s2"}
Channels == {"c1", "c2"}
Guilds == {"g1"}
Null == "null"
Volumes == {0, DefaultVolume}
RequiredPermissions == {"VIEW_CHANNEL", "CONNECT", "SPEAK"}
PermissionSets == SUBSET RequiredPermissions
PlayIds == 1..MaxPlays

\* channel.guildId of a fetched channel: both channels are of the one guild
GuildOf(c) == "g1"

VARIABLES
    variant,    \* "promise" or "async": which source file runs
    active,     \* the sessions that have been constructed
    channelId,  \* this.channelId
    guildId,    \* this.guildId (Null until a join resolves its channel)
    player,     \* this.player   (0: null, else the id of the play that made it)
    resource,   \* this.resource (0: null, else the id of the play that made it)
    jres,       \* the session's join call: "idle" (none under way), "fetching"
                \* (suspended on the channel fetch), "waiting" (on the guild's
                \* connection), "orphaned" (on a connection destroyed since)
    destroyed,  \* history: the sessions on which destroy has completed, with no
                \* join of theirs completed successfully since
    cstatus,    \* getVoiceConnection(guild).state.status; "none": no connection
    cchannel,   \* the channel the guild's connection is joined (or joining) to
    csub,       \* the player the guild's connection is subscribed to (0: none)
    nextPlay,   \* the next player/resource pair to be created
    pstatus,    \* player.state.status
    plis,       \* the once-listeners play registered on a player, still armed
    elog,       \* what the play's event surface (emitter) has emitted, in order
    pwait,      \* whether pause calls are suspended on a player's Paused event
    vol,        \* this.resource.volume.volume, of the session's resource
    ev          \* the call made in the last step and what it returned

vars == <<variant, active, channelId, guildId, player, resource, jres,
          destroyed, cstatus, cchannel, csub, nextPlay, pstatus, plis, elog, pwait, vol, ev>>

sessionVars == <<guildId, player, resource>>
connVars == <<cstatus, cchannel, csub>>
playerVars == <<nextPlay, pstatus, plis, elog, pwait, vol>>
fixedVars == <<variant, active, channelId>>

\* ------------------------------------------------------------ error values
ErrorCodes == {"NO_CONNECTION", "MISSING_PERMISSIONS", "CONNECTION_NOT_READY",
               "NO_RESOURCE", "PLAYER_ALREADY_PAUSED", "PLAYER_NOT_PAUSED",
               "NO_CHANNEL"}

\* An error that is no VoiceConnectionError: it has no code of the set.
Untagged == "UNTAGGED"

\* What the callers saw in the last step: the call op(arg) of the sessions
\* in `who` returned `out` ("ok", "pending" while it is suspended, an error
\* code or Untagged) with value val, and sent request req to the library
\* ("none" when it sent nothing).  `at` is the place the call was at: "call"
\* for a call that ran in this step; for join, which suspends twice, "call",
\* "fetch-failed", "fetched" (arg: the permissions found), and "ready" or
\* "error" when that event of the connection settled it.
Ev(op, who, at, arg, out, val, req) ==
    [op |-> op, who |-> who, at |-> at, arg |-> arg, out |-> out, val |-> val,
     req |-> req]

\* A step in which no call was made and none returned.
EvNone == Ev("none", {}, "-", "-", "-", "-", "none")

\* ----------------------------------------------------------------- helpers
\* new VoiceConnectionError(code): the code a caller reads from the error.
VoiceConnectionError(code) == code

\* The message of an error constructed without one.
Undefined == "undefined"

\* err.message of a failure of the client or of the library.
UnderlyingMessage == "underlying message"

\* The message table of VoiceConnectionError in the promise version.
MessagesPromise ==
    [NO_CONNECTION |-> "The client was not connected to this channel.",
     MISSING_PERMISSIONS |-> "The client do not have permissions.",
     CONNECTION_NOT_READY |-> "The connection is not ready to play.",
     NO_RESOURCE |-> "No resource were provided.",
     PLAYER_ALREADY_PAUSED |-> "The player is already paused."]

\* VoiceConnectionError.messages of the async version.
MessagesAsync ==
    [NO_CONNECTION |-> "The client was not connected to this channel.",
     MISSING_PERMISSIONS |-> "The client does not have permissions.",
     CONNECTION_NOT_READY |-> "The connection is not ready to play.",
     NO_RESOURCE |-> "No resource was provided.",
     PLAYER_ALREADY_PAUSED |-> "The player is already paused.",
     PLAYER_NOT_PAUSED |-> "The player is not paused."]

Messages == IF variant = "promise" THEN MessagesPromise ELSE MessagesAsync

\* The message of new VoiceConnectionError(code, message): table[code] || message.
ErrorMessage(code, message) ==
    IF code \in DOMAIN Messages THEN Messages[code] ELSE message

\* The message argument at the places that construct the error: NO_CHANNEL is
\* built with err.message of what was caught, every other code with none.
MessageArgument(code) ==
    IF code = "NO_CHANNEL" THEN UnderlyingMessage ELSE Undefined

\* getVoiceConnection(this.guildId) / getConnection(): the guild the
\* session looks up in the registry; nothing is found while guildId is null.
GetConnection(s) ==
    IF guildId[s] # Null /\ cstatus[guildId[s]] # "none" THEN guildId[s] ELSE Null

\* Mutant: isConnectionReady asks only whether a connection exists.
IsConnectionReadyAnyStatus(s) == GetConnection(s) # Null

\* isConnectionReady(): a connection exists and its status is Ready.
IsConnectionReady(s) ==
    /\ GetConnection(s) # Null
    /\ cstatus[GetConnection(s)] = "ready"

\* Mutant: join without the early return.
JoinEarlyReturnNever(g) == FALSE

\* Mutant: the early return asks only whether a connection exists.
JoinEarlyReturnAnyStatus(g) == cstatus[g] # "none"

\* join's check, made once guildId holds the fetched channel's guild g:
\* the guild has a connection and it is Ready, so join returns at once.
JoinEarlyReturn(g) ==
    /\ cstatus[g] # "none"
    /\ cstatus[g] = "ready"

\* Mutant: the guard asks only whether a connection exists.
ReadyGuardAnyStatus(s) ==
    IF GetConnection(s) = Null
    THEN VoiceConnectionError(IF variant = "promise" THEN "NO_CONNECTION"
                              ELSE "CONNECTION_NOT_READY")
    ELSE "pass"

\* The guard that opens play, pause, unpause, isPaused, getVolume, setVolume:
\* "pass" or the code it fails with.  The promise version tells a missing
\* connection (NO_CONNECTION) from one that is not Ready; the async version
\* reports both as CONNECTION_NOT_READY.
ReadyGuard(s) ==
    IF variant = "promise"
    THEN IF GetConnection(s) = Null
         THEN VoiceConnectionError("NO_CONNECTION")
         ELSE IF cstatus[GetConnection(s)] # "ready"
              THEN VoiceConnectionError("CONNECTION_NOT_READY")
              ELSE "pass"
    ELSE IF ~IsConnectionReady(s)
         THEN VoiceConnectionError("CONNECTION_NOT_READY")
         ELSE "pass"

\* permissions.has(["VIEW_CHANNEL", "CONNECT", "SPEAK"]): all three.
HasPermissions(perms) == RequiredPermissions \subseteq perms

\* What join fails with when the permission check fails.  The promise version
\* rejects with MISSING_PERMISSIONS.  The async version throws it inside the
\* try block, whose catch rethrows every error as NO_CHANNEL.
JoinPermissionError ==
    IF variant = "promise"
    THEN VoiceConnectionError("MISSING_PERMISSIONS")
    ELSE VoiceConnectionError("NO_CHANNEL")

\* What a suspended join fails with when its connection emits "error".  The
\* promise version rejects with the library's error as it is; the async
\* version's catch rethrows it as NO_CHANNEL.
JoinConnectionError ==
    IF variant = "promise" THEN Untagged ELSE VoiceConnectionError("NO_CHANNEL")

\* A join that is suspended on the channel fetch or on the guild's connection.
JoinPending(s) == jres[s] \in {"fetching", "waiting"}

\* ------------------------------------------------------------------- Init
InitWith(act) ==
    /\ variant \in {"promise", "async"}
    /\ active = act
    /\ channelId \in [Sessions -> Channels]
    /\ channelId["s1"] = "c1"
    /\ \A s \in Sessions \ act : channelId[s] = "c1"
    /\ guildId = [s \in Sessions |-> Null]
    /\ player = [s \in Sessions |-> 0]
    /\ resource = [s \in Sessions |-> 0]
    /\ jres = [s \in Sessions |-> "idle"]
    /\ destroyed = {}
    /\ cstatus = [g \in Guilds |-> "none"]
    /\ cchannel = [g \in Guilds |-> Null]
    /\ csub = [g \in Guilds |-> 0]
    /\ nextPlay = 1
    /\ pstatus = [p \in PlayIds |-> "none"]
    /\ plis = [p \in PlayIds |-> {}]
    /\ elog = [p \in PlayIds |-> <<>>]
    /\ pwait = [p \in PlayIds |-> FALSE]
    /\ vol = [s \in Sessions |-> 0]
    /\ ev = EvNone

\* One session constructed: new VoiceConnection(client, "c1").
Init == InitWith({"s1"})

\* ------------------------------------------------------------------- join
\* join(): the call starts client.channels.fetch(this.channelId).  A session
\* has one join under way at a time, but for a join left suspended on a
\* destroyed connection, which no event will settle.
JoinCall(s) ==
    /\ s \in active
    /\ ~JoinPending(s)
    /\ jres' = [jres EXCEPT ![s] = "fetching"]
    /\ destroyed' = destroyed
    /\ ev' = Ev("join", {s}, "call", "-", "pending", "-", "none")
    /\ UNCHANGED <<fixedVars, sessionVars, connVars, playerVars>>

\* The fetch rejects: join fails with NO_CHANNEL.
JoinFetchFail(s) ==
    /\ jres[s] = "fetching"
    /\ jres' = [jres EXCEPT ![s] = "idle"]
    /\ destroyed' = destroyed
    /\ ev' = Ev("join", {s}, "fetch-failed", "-",
             VoiceConnectionError("NO_CHANNEL"), "-", "none")
    /\ UNCHANGED <<fixedVars, sessionVars, connVars, playerVars>>

\* joinVoiceChannel({channelId, guildId}) of the library, for session s: the
\* guild's connection is reused (a Disconnected one rejoins) and moves to the
\* channel; with none, a new connection is created and registered.  Either
\* way the connection is not Ready yet.
JoinVoiceChannel(s, g) ==
    /\ cstatus' = [cstatus EXCEPT ![g] = "signalling"]
    /\ cchannel' = [cchannel EXCEPT ![g] = channelId[s]]
    /\ csub' = csub

\* Mutant: join does not record the guild of the fetched channel.
FetchedGuildIdNotRecorded(s) == guildId[s]

\* this.guildId = channel.guildId: what join writes once the fetch resolved.
FetchedGuildId(s) == GuildOf(channelId[s])

\* The fetch resolves with the channel; perms is what
\* channel.permissionsFor(me) holds.  The rest of join runs: guildId is
\* recorded, a Ready connection ends the call, the permissions are checked,
\* the library is asked to join and the call suspends on Ready / "error".
JoinFetched(s, perms) ==
    /\ jres[s] = "fetching"
    /\ guildId' = [guildId EXCEPT ![s] = FetchedGuildId(s)]
    /\ LET g == GuildOf(channelId[s])
       IN  IF JoinEarlyReturn(g)
           THEN /\ jres' = [jres EXCEPT ![s] = "idle"]
                /\ destroyed' = destroyed \ {s}
                /\ ev' = Ev("join", {s}, "fetched", perms, "ok", "-", "none")
                /\ UNCHANGED connVars
           ELSE IF ~HasPermissions(perms)
           THEN /\ jres' = [jres EXCEPT ![s] = "idle"]
                /\ destroyed' = destroyed
                /\ ev' = Ev("join", {s}, "fetched", perms, JoinPermissionError, "-", "none")
                /\ UNCHANGED connVars
           ELSE /\ JoinVoiceChannel(s, g)
                /\ jres' = [jres EXCEPT ![s] = "waiting"]
                /\ destroyed' = destroyed
                /\ ev' = Ev("join", {s}, "fetched", perms, "pending", "-", "join")
    /\ UNCHANGED <<fixedVars, player, resource, playerVars>>

\* The joins suspended on the connection of guild c, which its Ready or
\* "error" event settles.
Waiting(c) == {s \in Sessions : jres[s] = "waiting" /\ guildId[s] = c}

\* The listeners of the joins suspended on connection c run: each join
\* returns `out`.
Settle(c, event, out) ==
    /\ jres' = [s \in Sessions |-> IF s \in Waiting(c) THEN "idle" ELSE jres[s]]
    /\ destroyed' = IF out = "ok" THEN destroyed \ Waiting(c) ELSE destroyed
    /\ ev' = IF Waiting(c) = {} THEN EvNone
             ELSE Ev("join", Waiting(c), event, "-", out, "-", "none")

\* The library: a connection reaches Ready and emits it; every join suspended
\* on it resolves.
ConnReady(c) ==
    /\ cstatus[c] = "signalling"
    /\ cstatus' = [cstatus EXCEPT ![c] = "ready"]
    /\ Settle(c, "ready", "ok")
    /\ UNCHANGED <<fixedVars, sessionVars, cchannel, csub, playerVars>>

\* The library: a connection emits "error"; every join suspended on it fails.
ConnError(c) ==
    /\ cstatus[c] \in {"signalling", "ready"}
    /\ Settle(c, "error", JoinConnectionError)
    /\ UNCHANGED <<fixedVars, sessionVars, connVars, playerVars>>

\* The library: a connection leaves its status (the voice server moves, the
\* socket closes or reopens): it reconnects (signalling) or is Disconnected.
ConnDrop(c, to) ==
    /\ cstatus[c] \in {"signalling", "ready", "disconnected"}
    /\ to \in {"signalling", "disconnected"}
    /\ to # cstatus[c]
    /\ cstatus' = [cstatus EXCEPT ![c] = to]
    /\ ev' = EvNone
    /\ UNCHANGED <<fixedVars, sessionVars, jres, destroyed, cchannel, csub, playerVars>>

\* ---------------------------------------------------------------- destroy
\* Mutant: destroy without its guard.
DestroyOutcomeUnguarded(s) == "ok"

\* What destroy returns: NO_CONNECTION without a connection of the guild.
DestroyOutcome(s) ==
    IF GetConnection(s) = Null THEN VoiceConnectionError("NO_CONNECTION") ELSE "ok"

\* Mutant: connection.destroy() leaves the connection as it is.
ConnectionDestroyNoop(g) == cstatus

\* connection.destroy() of the library: the guild's connection is destroyed
\* and leaves the registry.
ConnectionDestroy(g) == [cstatus EXCEPT ![g] = "none"]

\* destroy(): NO_CONNECTION without a connection; else the Destroyed listener
\* is registered and connection.destroy() runs, which unregisters the
\* connection, drops its subscription and emits Destroyed at once: the call
\* returns.  The joins suspended on the connection are left orphaned.
Destroy(s) ==
    /\ s \in active
    /\ IF DestroyOutcome(s) # "ok"
       THEN /\ ev' = Ev("destroy", {s}, "call", "-", DestroyOutcome(s), "-", "none")
            /\ UNCHANGED <<jres, destroyed, connVars>>
       ELSE /\ cstatus' = ConnectionDestroy(GetConnection(s))
            /\ cchannel' = [cchannel EXCEPT ![GetConnection(s)] = Null]
            /\ csub' = [csub EXCEPT ![GetConnection(s)] = 0]
            /\ jres' = [t \in Sessions |->
                           IF t \in Waiting(GetConnection(s)) THEN "orphaned" ELSE jres[t]]
            /\ destroyed' = destroyed \cup {s}
            /\ ev' = Ev("destroy", {s}, "call", "-", "ok", "-", "destroy")
    /\ UNCHANGED <<fixedVars, sessionVars, playerVars>>

\* ------------------------------------------------------------- the player
\* Mutant: player.on in place of player.once, the listener stays armed.
OnInsteadOfOnce(listeners, kind) == listeners

\* player.once(status, listener): what is left of the armed listeners after
\* the event `kind` was emitted.
Once(listeners, kind) == listeners \ {kind}

\* The emitter's log after the player emitted `kind`: the armed listener of
\* that kind forwards it to the play's event surface.
Forward(p, kind) ==
    IF kind \in plis[p] THEN Append(elog[p], kind) ELSE elog[p]

\* The player's status becomes `st` and the event of that name is emitted:
\* the armed listener forwards it and is removed; a transition to Paused
\* resolves the pause calls suspended on the player.
SetStatus(p, st) ==
    /\ pstatus' = [pstatus EXCEPT ![p] = st]
    /\ elog' = [elog EXCEPT ![p] = Forward(p, st)]
    /\ plis' = [plis EXCEPT ![p] = Once(plis[p], st)]
    /\ pwait' = [pwait EXCEPT ![p] = IF st = "paused" THEN FALSE ELSE pwait[p]]

\* ------------------------------------------------------------------- play
\* Mutant: the player handed out is the one created before, when there is one.
CreateAudioPlayerStale == IF nextPlay > 1 THEN nextPlay - 1 ELSE nextPlay

\* createAudioPlayer(): a fresh player.
CreateAudioPlayer == nextPlay

\* play(stream, volume): after the guard, a fresh resource (volume set) and a
\* fresh player replace the session's handles, the three once-listeners are
\* registered, player.play(resource) starts buffering and the connection is
\* subscribed to the player.
Play(s, volume) ==
    /\ s \in active
    /\ IF ReadyGuard(s) # "pass"
       THEN /\ ev' = Ev("play", {s}, "call", volume, ReadyGuard(s), "-", "none")
            /\ UNCHANGED <<sessionVars, connVars, playerVars>>
       ELSE /\ nextPlay <= MaxPlays
            /\ resource' = [resource EXCEPT ![s] = nextPlay]
            /\ vol' = [vol EXCEPT ![s] = volume]
            /\ player' = [player EXCEPT ![s] = CreateAudioPlayer]
            /\ plis' = [plis EXCEPT ![CreateAudioPlayer] = {"playing", "idle", "error"}]
            /\ pstatus' = [pstatus EXCEPT ![CreateAudioPlayer] = "buffering"]
            /\ csub' = [csub EXCEPT ![GetConnection(s)] = CreateAudioPlayer]
            /\ nextPlay' = nextPlay + 1
            /\ ev' = Ev("play", {s}, "call", volume, "ok", CreateAudioPlayer, "play")
            /\ UNCHANGED <<guildId, cstatus, cchannel, elog, pwait>>
    /\ UNCHANGED <<fixedVars, jres, destroyed>>

\* ------------------------------------------------------- pause / unpause
\* Mutant: pause rejects a Paused player whatever the flag.
PauseWhenPausedAlwaysRejects(rejectIfAlreadyPaused) ==
    VoiceConnectionError("PLAYER_ALREADY_PAUSED")

\* Mutant: unpause never rejects.
UnpauseWhenNotPausedNeverRejects(rejectIfNotPaused) == "ok"

\* What pause returns for a player that is Paused already.
PauseWhenPaused(rejectIfAlreadyPaused) ==
    IF rejectIfAlreadyPaused
    THEN VoiceConnectionError("PLAYER_ALREADY_PAUSED")
    ELSE "ok"

\* What unpause returns for a player that is not Paused.
UnpauseWhenNotPaused(rejectIfNotPaused) ==
    IF rejectIfNotPaused
    THEN VoiceConnectionError("PLAYER_NOT_PAUSED")
    ELSE "ok"

\* Mutant: player.pause() pauses a player in any status.
PlayerPausesAlways(p) == TRUE

\* player.pause() of the library acts on a Playing player only.
PlayerPauses(p) == pstatus[p] = "playing"

\* Mutant: pause returns without waiting for the Paused event.
AwaitPausedNoWait(emitted) == "ok"

\* The promise around player.once(Paused, resolve): resolved once the event
\* was emitted, pending until then.
AwaitPaused(emitted) == IF emitted THEN "ok" ELSE "pending"

\* pause(rejectIfAlreadyPaused): after the guard, this.player.state is read
\* (a TypeError while this.player is null).  A Paused player ends the call;
\* otherwise the Paused listener is registered and player.pause() runs, which
\* pauses a Playing player at once and does nothing in any other status.
Pause(s, rejectIfAlreadyPaused) ==
    /\ s \in active
    /\ IF ReadyGuard(s) # "pass"
       THEN /\ ev' = Ev("pause", {s}, "call", rejectIfAlreadyPaused, ReadyGuard(s), "-", "none")
            /\ UNCHANGED playerVars
       ELSE IF player[s] = 0
       THEN /\ ev' = Ev("pause", {s}, "call", rejectIfAlreadyPaused, Untagged, "-", "none")
            /\ UNCHANGED playerVars
       ELSE IF pstatus[player[s]] = "paused"
       THEN /\ ev' = Ev("pause", {s}, "call", rejectIfAlreadyPaused,
                        PauseWhenPaused(rejectIfAlreadyPaused), "-", "none")
            /\ UNCHANGED playerVars
       ELSE IF PlayerPauses(player[s])
       THEN /\ SetStatus(player[s], "paused")
            /\ ev' = Ev("pause", {s}, "call", rejectIfAlreadyPaused,
                        AwaitPaused(TRUE), "-", "pause")
            /\ UNCHANGED <<nextPlay, vol>>
       ELSE /\ pwait' = [pwait EXCEPT ![player[s]] = AwaitPaused(FALSE) = "pending"]
            /\ ev' = Ev("pause", {s}, "call", rejectIfAlreadyPaused,
                        AwaitPaused(FALSE), "-", "pause")
            /\ UNCHANGED <<nextPlay, pstatus, plis, elog, vol>>
    /\ UNCHANGED <<fixedVars, sessionVars, jres, destroyed, connVars>>

\* unpause(rejectIfNotPaused): the mirror.  A Paused player gets the Playing
\* listener and player.unpause(), which resumes it at once.
Unpause(s, rejectIfNotPaused) ==
    /\ s \in active
    /\ IF ReadyGuard(s) # "pass"
       THEN /\ ev' = Ev("unpause", {s}, "call", rejectIfNotPaused, ReadyGuard(s), "-", "none")
            /\ UNCHANGED playerVars
       ELSE IF player[s] = 0
       THEN /\ ev' = Ev("unpause", {s}, "call", rejectIfNotPaused, Untagged, "-", "none")
            /\ UNCHANGED playerVars
       ELSE IF pstatus[player[s]] # "paused"
       THEN /\ ev' = Ev("unpause", {s}, "call", rejectIfNotPaused,
                        UnpauseWhenNotPaused(rejectIfNotPaused), "-", "none")
            /\ UNCHANGED playerVars
       ELSE /\ SetStatus(player[s], "playing")
            /\ ev' = Ev("unpause", {s}, "call", rejectIfNotPaused, "ok", "-", "resume")
            /\ UNCHANGED <<nextPlay, vol>>
    /\ UNCHANGED <<fixedVars, sessionVars, jres, destroyed, connVars>>

\* Mutant: isPaused answers whether the player is not Playing.
PlayerIsPausedNotPlaying(p) == pstatus[p] # "playing"

\* this.player.state.status === AudioPlayerStatus.Paused
PlayerIsPaused(p) == pstatus[p] = "paused"

\* isPaused(): after the guard, whether this.player.state.status is Paused
\* (a TypeError while this.player is null).
IsPaused(s) ==
    /\ s \in active
    /\ ev' = IF ReadyGuard(s) # "pass"
             THEN Ev("isPaused", {s}, "call", "-", ReadyGuard(s), "-", "none")
             ELSE IF player[s] = 0
             THEN Ev("isPaused", {s}, "call", "-", Untagged, "-", "none")
             ELSE Ev("isPaused", {s}, "call", "-", "ok", PlayerIsPaused(player[s]), "none")
    /\ UNCHANGED <<fixedVars, sessionVars, jres, destroyed, connVars, playerVars>>

\* ----------------------------------------------------------------- volume
\* Mutant: the resource is checked before the connection.
ResourceGuardResourceFirst(s) ==
    IF resource[s] = 0
    THEN VoiceConnectionError("NO_RESOURCE")
    ELSE ReadyGuard(s)

\* The second guard of getVolume and setVolume: NO_RESOURCE without a resource.
ResourceGuard(s) ==
    IF ReadyGuard(s) # "pass"
    THEN ReadyGuard(s)
    ELSE IF resource[s] = 0
         THEN VoiceConnectionError("NO_RESOURCE")
         ELSE "pass"

\* getVolume(): this.resource.volume.volume.
GetVolume(s) ==
    /\ s \in active
    /\ ev' = IF ResourceGuard(s) # "pass"
             THEN Ev("getVolume", {s}, "call", "-", ResourceGuard(s), "-", "none")
             ELSE Ev("getVolume", {s}, "call", "-", "ok", vol[s], "none")
    /\ UNCHANGED <<fixedVars, sessionVars, jres, destroyed, connVars, playerVars>>

\* setVolume(volume): this.resource.volume.setVolume(volume).
SetVolume(s, volume) ==
    /\ s \in active
    /\ IF ResourceGuard(s) # "pass"
       THEN /\ ev' = Ev("setVolume", {s}, "call", volume, ResourceGuard(s), "-", "none")
            /\ UNCHANGED vol
       ELSE /\ vol' = [vol EXCEPT ![s] = volume]
            /\ ev' = Ev("setVolume", {s}, "call", volume, "ok", "-", "none")
    /\ UNCHANGED <<fixedVars, sessionVars, jres, destroyed, connVars, nextPlay, pstatus, plis, elog, pwait>>

\* ------------------------------------------------- the library's players
\* A player is heard while a Ready connection is subscribed to it.
Playable(p) == \E c \in Guilds : csub[c] = p /\ cstatus[c] = "ready"

\* The resource becomes readable: Buffering -> Playing.
PlayerReadable(p) ==
    /\ pstatus[p] = "buffering"
    /\ SetStatus(p, "playing")
    /\ ev' = EvNone
    /\ UNCHANGED <<fixedVars, sessionVars, jres, destroyed, connVars, nextPlay, vol>>

\* The resource ends: Buffering or Playing -> Idle.
PlayerEnd(p) ==
    /\ pstatus[p] \in {"buffering", "playing"}
    /\ SetStatus(p, "idle")
    /\ ev' = EvNone
    /\ UNCHANGED <<fixedVars, sessionVars, jres, destroyed, connVars, nextPlay, vol>>

\* The resource's stream fails: the player emits "error", then goes Idle.
PlayerError(p) ==
    /\ pstatus[p] \in {"buffering", "playing", "paused", "autopaused"}
    /\ pstatus' = [pstatus EXCEPT ![p] = "idle"]
    /\ elog' = [elog EXCEPT ![p] =
                   LET afterError == Forward(p, "error")
                   IN  IF "idle" \in plis[p] THEN Append(afterError, "idle") ELSE afterError]
    /\ plis' = [plis EXCEPT ![p] = Once(Once(plis[p], "error"), "idle")]
    /\ ev' = EvNone
    /\ UNCHANGED <<fixedVars, sessionVars, jres, destroyed, connVars, nextPlay, pwait, vol>>

\* No Ready connection is subscribed: a Playing player is auto-paused.
PlayerAutoPause(p) ==
    /\ pstatus[p] = "playing"
    /\ ~Playable(p)
    /\ SetStatus(p, "autopaused")
    /\ ev' = EvNone
    /\ UNCHANGED <<fixedVars, sessionVars, jres, destroyed, connVars, nextPlay, vol>>

\* A Ready connection is subscribed again: AutoPaused -> Playing.
PlayerAutoResume(p) ==
    /\ pstatus[p] = "autopaused"
    /\ Playable(p)
    /\ SetStatus(p, "playing")
    /\ ev' = EvNone
    /\ UNCHANGED <<fixedVars, sessionVars, jres, destroyed, connVars, nextPlay, vol>>

\* ------------------------------------------------------------------- Next
Next ==
    \/ \E s \in Sessions : JoinCall(s)
    \/ \E s \in Sessions : JoinFetchFail(s)
    \/ \E s \in Sessions, perms \in PermissionSets : JoinFetched(s, perms)
    \/ \E s \in Sessions : Destroy(s)
    \/ \E s \in Sessions, volume \in Volumes : Play(s, volume)
    \/ \E s \in Sessions, flag \in BOOLEAN : Pause(s, flag)
    \/ \E s \in Sessions, flag \in BOOLEAN : Unpause(s, flag)
    \/ \E s \in Sessions : IsPaused(s)
    \/ \E s \in Sessions : GetVolume(s)
    \/ \E s \in Sessions, volume \in Volumes : SetVolume(s, volume)
    \/ \E c \in Guilds : ConnReady(c)
    \/ \E c \in Guilds : ConnError(c)
    \/ \E c \in Guilds, to \in {"signalling", "disconnected"} : ConnDrop(c, to)
    \/ \E p \in PlayIds : PlayerReadable(p)
    \/ \E p \in PlayIds : PlayerEnd(p)
    \/ \E p \in PlayIds : PlayerError(p)
    \/ \E p \in PlayIds : PlayerAutoPause(p)
    \/ \E p \in PlayIds : PlayerAutoResume(p)

Spec == Init /\ [][Next]_vars

\* Two sessions constructed for the one guild, on any two channels.
InitSessions == InitWith(Sessions)

\* The steps of join and destroy and of the library's connections: what two
\* sessions of one guild share is the guild's connection.
NextConnections ==
    \/ \E s \in Sessions : JoinCall(s)
    \/ \E s \in Sessions : JoinFetchFail(s)
    \/ \E s \in Sessions, perms \in PermissionSets : JoinFetched(s, perms)
    \/ \E s \in Sessions : Destroy(s)
    \/ \E c \in Guilds : ConnReady(c)
    \/ \E c \in Guilds : ConnError(c)
    \/ \E c \in Guilds, to \in {"signalling", "disconnected"} : ConnDrop(c, to)

SpecSessions == InitSessions /\ [][NextConnections]_vars

\* ================================================================= claims
\* The step is the part of join that runs when the fetch resolved, for s.
JoinFetchedStep(s) == ev'.op = "join" /\ ev'.at = "fetched" /\ s \in ev'.who

\* The step is a call of op by s.
CallStep(op, s) == ev'.op = op /\ ev'.at = "call" /\ s \in ev'.who

\* The guild's connection, as the registry holds it, whatever guildId says.
GuildReady(g) == cstatus[g] = "ready"

\* C1: join is idempotent.  Whenever the channel of a join resolves while the
\* registry holds a Ready connection for its guild, the join returns success,
\* sends no join request to the library and leaves the registry and every
\* connection as they were (no second connection).
C1_JoinIdempotent ==
    [][\A s \in Sessions :
          (JoinFetchedStep(s) /\ GuildReady(GuildOf(channelId[s])))
          => /\ ev'.out = "ok"
             /\ ev'.req = "none"
             /\ UNCHANGED connVars]_vars

\* C1 witness: a join has just returned success on a Ready connection, having
\* sent nothing.
C1_Witness ==
    /\ ev.op = "join" /\ ev.at = "fetched" /\ ev.out = "ok" /\ ev.req = "none"
    /\ "s1" \in ev.who
    /\ GuildReady("g1")

\* C2: with the channel resolved, no Ready connection for its guild and a
\* permission set that omits one of view-channel/connect/speak, join fails
\* with MISSING_PERMISSIONS and sends no join request.
C2_MissingPermissions ==
    [][\A s \in Sessions :
          (/\ JoinFetchedStep(s)
           /\ ~GuildReady(GuildOf(channelId[s]))
           /\ ~(RequiredPermissions \subseteq ev'.arg))
          => /\ ev'.out = "MISSING_PERMISSIONS"
             /\ ev'.req = "none"]_vars

\* C3: every failure of every operation carries one of the seven codes: no
\* call returns an untagged error.
C3_OnlyTaggedErrors ==
    ev.out \in {"-", "ok", "pending"} \cup ErrorCodes

\* The session's guild has a Ready connection in the registry.
SessionReady(s) == guildId[s] # Null /\ GuildReady(guildId[s])

\* The registry holds no connection for the session's guild.
NoConnection(s) == guildId[s] = Null \/ cstatus[guildId[s]] = "none"

\* C4 as the spec states it: a handle is non-null only while the connection
\* of the session's guild is Ready.
C4_HandlesOnlyWhileReady ==
    \A s \in Sessions :
        (player[s] # 0 \/ resource[s] # 0) => SessionReady(s)

\* C4 amended: a handle is written only while the connection is Ready (in a
\* successful play, which leaves it Ready), both handles are written
\* together to non-null values, and no step writes null.
C4_HandlesWrittenOnlyWhileReady ==
    [][\A s \in Sessions :
          (player'[s] # player[s] \/ resource'[s] # resource[s])
          => /\ SessionReady(s)
             /\ SessionReady(s)'
             /\ CallStep("play", s) /\ ev'.out = "ok"
             /\ player'[s] # 0 /\ resource'[s] # 0
             /\ player'[s] # player[s] /\ resource'[s] # resource[s]]_vars

\* C4 witness: the handles were set by a play and the connection has been
\* destroyed since: they are still non-null.
C4_Witness ==
    /\ ev.op = "destroy" /\ ev.out = "ok"
    /\ player["s1"] # 0 /\ resource["s1"] # 0
    /\ ~SessionReady("s1")

\* C5: on a Ready connection whose player is Paused, pause fails with
\* PLAYER_ALREADY_PAUSED under rejectIfAlreadyPaused = true and succeeds
\* under false; either way the player stays Paused and no pause request is
\* sent to it.
C5_PauseTwice ==
    [][\A s \in Sessions :
          (/\ CallStep("pause", s)
           /\ SessionReady(s)
           /\ player[s] # 0
           /\ pstatus[player[s]] = "paused")
          => /\ ev'.out = IF ev'.arg THEN "PLAYER_ALREADY_PAUSED" ELSE "ok"
             /\ ev'.req = "none"
             /\ pstatus'[player[s]] = "paused"
             /\ UNCHANGED playerVars]_vars

\* C5 witness: a player paused by a pause call; a second pause, with the flag
\* false, has just returned success without a request.
C5_Witness ==
    /\ ev.op = "pause" /\ ev.arg = FALSE /\ ev.out = "ok" /\ ev.req = "none"
    /\ SessionReady("s1")
    /\ pstatus[player["s1"]] = "paused"

\* C6: on a Ready connection whose player is not Paused, unpause fails with
\* PLAYER_NOT_PAUSED under rejectIfNotPaused = true and succeeds under false
\* as a no-op: no resume request, the player's status unchanged.
C6_UnpauseNotPaused ==
    [][\A s \in Sessions :
          (/\ CallStep("unpause", s)
           /\ SessionReady(s)
           /\ player[s] # 0
           /\ pstatus[player[s]] # "paused")
          => /\ ev'.out = IF ev'.arg THEN "PLAYER_NOT_PAUSED" ELSE "ok"
             /\ ev'.req = "none"
             /\ UNCHANGED playerVars]_vars

\* C6 witness: unpause with the flag false has just returned success on a
\* Playing player, without a request.
C6_Witness ==
    /\ ev.op = "unpause" /\ ev.arg = FALSE /\ ev.out = "ok" /\ ev.req = "none"
    /\ SessionReady("s1")
    /\ pstatus[player["s1"]] = "playing"

\* What getVolume/setVolume return: `whenNone` without a connection of the
\* guild, CONNECTION_NOT_READY with one that is not Ready, NO_RESOURCE with
\* a Ready one and no resource, else success.
VolumeOutcome(s, whenNone) ==
    IF NoConnection(s) THEN whenNone
    ELSE IF ~SessionReady(s) THEN "CONNECTION_NOT_READY"
    ELSE IF resource[s] = 0 THEN "NO_RESOURCE"
    ELSE "ok"

\* getVolume and setVolume return `VolumeOutcome`; the volume of the
\* session's resource is written by a successful play or setVolume, with
\* the call's argument, and by nothing else, and a successful getVolume
\* returns it.
VolumeSteps(whenNone) ==
    \A s \in Sessions :
        /\ CallStep("getVolume", s)
           => /\ ev'.out = VolumeOutcome(s, whenNone)
              /\ ev'.out = "ok" => ev'.val = vol[s]
        /\ CallStep("setVolume", s)
           => /\ ev'.out = VolumeOutcome(s, whenNone)
              /\ ev'.out = "ok" => vol'[s] = ev'.arg
        /\ (CallStep("play", s) /\ ev'.out = "ok") => vol'[s] = ev'.arg
        /\ vol'[s] # vol[s]
           => (CallStep("setVolume", s) \/ CallStep("play", s)) /\ ev'.out = "ok"

Emitted(p, kind) == Cardinality({i \in 1..Len(elog[p]) : elog[p][i] = kind})

\* C8: the event surface of one play emits "playing" at most once and "idle"
\* at most once, whatever the player does afterwards; the first transition
\* to Playing emits "playing", and the transition to Idle from a player that
\* has played emits "idle" after it: for start -> Playing -> Idle the
\* surface has emitted exactly "playing", then "idle" ("error" between the
\* two when the player failed).
C8_EmittedOnce ==
    [][\A p \in PlayIds :
          /\ Emitted(p, "playing")' <= 1
          /\ Emitted(p, "idle")' <= 1
          /\ (pstatus[p] = "buffering" /\ pstatus'[p] = "playing")
             => elog'[p] = <<"playing">>
          /\ (pstatus[p] \in {"playing", "paused", "autopaused"} /\ pstatus'[p] = "idle")
             => elog'[p] \in {<<"playing", "idle">>, <<"playing", "error", "idle">>}
          /\ (pstatus[p] = "buffering" /\ pstatus'[p] = "idle")
             => elog'[p] \in {<<"idle">>, <<"error", "idle">>}]_vars

\* C8 witness: the first play's player has played to its end, and a later
\* play ran on the session, whose player is paused; the first play's surface
\* has emitted "playing" and "idle", once each.
C8_Witness ==
    /\ elog[1] = <<"playing", "idle">>
    /\ pstatus[1] = "idle"
    /\ ~pwait[1]
    /\ player["s1"] = 2
    /\ pstatus[2] = "paused"

\* C9: destroy fails with NO_CONNECTION when the registry holds no
\* connection for the session's guild and changes nothing; otherwise it
\* requests the teardown and returns success with the connection destroyed:
\* out of the registry, its subscription dropped.
C9_Destroy ==
    [][\A s \in Sessions :
          CallStep("destroy", s)
          => IF NoConnection(s)
             THEN /\ ev'.out = "NO_CONNECTION"
                  /\ ev'.req = "none"
                  /\ UNCHANGED connVars
             ELSE /\ ev'.out = "ok"
                  /\ ev'.req = "destroy"
                  /\ cstatus'[guildId[s]] = "none"
                  /\ csub'[guildId[s]] = 0]_vars

\* C9 witness: destroy has just returned success and the connection is
\* Destroyed.
C9_Witness ==
    /\ ev.op = "destroy" /\ ev.out = "ok"
    /\ guildId["s1"] = "g1"
    /\ cstatus["g1"] = "none"

\* C10: when a join has just returned success, the connection of the
\* session's guild is Ready, and the guard of play passes.
C10_JoinEndsReady ==
    \A s \in Sessions :
        (ev.op = "join" /\ s \in ev.who /\ ev.out = "ok")
        => /\ SessionReady(s)
           /\ ReadyGuard(s) = "pass"

\* C10 witness: a join suspended on the connection has just been resolved by
\* its Ready event.
C10_Witness ==
    /\ ev.op = "join" /\ ev.at = "ready" /\ ev.out = "ok"
    /\ "s1" \in ev.who
    /\ SessionReady("s1")

\* The step ends a join of s: it returns `out` to its caller.
JoinReturns(s, out) == ev'.op = "join" /\ s \in ev'.who /\ ev'.out = out

\* The step fails a join of s.
JoinFails(s) ==
    /\ ev'.op = "join" /\ s \in ev'.who
    /\ ev'.out \in ErrorCodes \cup {Untagged}

\* C11 as the spec states it: guildId is written only by the step in which a
\* join of the session completes successfully, and a join that fails leaves
\* it as it was.
C11_GuildIdOnSuccess ==
    [][\A s \in Sessions :
          /\ guildId'[s] # guildId[s] => JoinReturns(s, "ok")
          /\ JoinFails(s) => guildId'[s] = guildId[s]]_vars

\* C11 amended: guildId is null until the channel of a join resolves; that
\* step records the channel's guild, whatever the join does next (return
\* at once, fail the permission check, suspend on the connection); a join
\* whose channel does not resolve, and every other step, leave guildId as it
\* was, and it is never reset to null.
C11_GuildIdOnResolve ==
    [][\A s \in Sessions :
          /\ JoinFetchedStep(s) => guildId'[s] = GuildOf(channelId[s])
          /\ guildId'[s] # guildId[s] => JoinFetchedStep(s)
          /\ guildId[s] # Null => guildId'[s] # Null]_vars

\* C11 witness: a join has just failed the permission check, no connection
\* was ever requested, and guildId is set.
C11_Witness ==
    /\ ev.op = "join" /\ ev.at = "fetched" /\ ev.out \in ErrorCodes
    /\ "s1" \in ev.who
    /\ cstatus["g1"] = "none" /\ destroyed = {}
    /\ guildId["s1"] = "g1"

\* C12: a successful play stores in the session the player and the resource
\* it created, a pair no session held before, and subscribes the guild's
\* connection to that player; play has no suspension point, so of two plays
\* of a session the later one writes last: the stored player and resource
\* are always of the same play, never a mix.
C12_PlayReplacesHandles ==
    [][\A s \in Sessions :
          /\ (CallStep("play", s) /\ ev'.out = "ok")
             => /\ player'[s] = ev'.val
                /\ resource'[s] = ev'.val
                /\ csub'[guildId[s]] = ev'.val
                /\ \A t \in Sessions : ev'.val \notin {player[t], resource[t]}
                /\ pstatus[ev'.val] = "none"
                /\ pstatus'[ev'.val] = "buffering"
          /\ player'[s] = resource'[s]]_vars

\* C12 witness: the second play of the session has just returned; the
\* session's player and resource and the connection's subscription are its.
C12_Witness ==
    /\ ev.op = "play" /\ ev.out = "ok" /\ ev.val = 2
    /\ pstatus[1] # "none"
    /\ player["s1"] = 2 /\ resource["s1"] = 2
    /\ csub["g1"] = 2

\* C13: a suspended call completes only in the step that emits the event it
\* waits for, and nothing else ends it.  A join suspended on the connection
\* returns only with the connection's Ready or "error" event; when the
\* connection is destroyed first it is orphaned and never returns.  destroy
\* and unpause get their event in the call and never stay pending.  pause
\* on a player that is neither Paused nor Playing stays pending; a pending
\* pause ends only with the player's transition to Paused, and on an Idle
\* player it stays pending for good.
C13_UnboundedWait ==
    [][/\ \A s \in Sessions :
             /\ (jres[s] = "waiting" /\ jres'[s] # "waiting")
                => \/ /\ ev'.op = "join" /\ s \in ev'.who
                      /\ ev'.at \in {"ready", "error"}
                      /\ ev'.at = "ready"
                         => ~GuildReady(guildId[s]) /\ GuildReady(guildId[s])'
                      /\ jres'[s] = "idle"
                   \/ /\ ev'.op = "destroy" /\ ev'.out = "ok"
                      /\ jres'[s] = "orphaned"
             /\ (ev'.op = "join" /\ s \in ev'.who /\ ev'.at \in {"ready", "error"})
                => jres[s] = "waiting"
             /\ jres[s] = "orphaned"
                => \/ jres'[s] = "orphaned"
                   \/ CallStep("join", s) /\ jres'[s] = "fetching"
             /\ (CallStep("destroy", s) \/ CallStep("unpause", s))
                => ev'.out # "pending"
             /\ (/\ CallStep("pause", s)
                 /\ SessionReady(s)
                 /\ player[s] # 0
                 /\ pstatus[player[s]] \notin {"paused", "playing"})
                => /\ ev'.out = "pending"
                   /\ pwait'[player[s]]
                   /\ pstatus'[player[s]] = pstatus[player[s]]
       /\ \A p \in PlayIds :
             /\ (pwait[p] /\ ~pwait'[p])
                => pstatus[p] # "paused" /\ pstatus'[p] = "paused"
             /\ (pwait[p] /\ pstatus[p] = "idle")
                => pwait'[p] /\ pstatus'[p] = "idle"]_vars

\* C13 witness: a join of the session is orphaned by a destroy, and a pause
\* is pending on a player that has gone Idle.
C13_Witness ==
    /\ jres["s1"] = "orphaned"
    /\ pwait[1] /\ pstatus[1] = "idle"

\* C14: a join whose channel does not resolve fails with NO_CHANNEL, whose
\* message is the underlying failure's, and a join fails with NO_CHANNEL
\* only then: not after the channel resolved.
C14_NoChannelOnlyForResolution ==
    /\ (ev.op = "join" /\ ev.at = "fetch-failed")
       => /\ ev.out = "NO_CHANNEL"
          /\ ErrorMessage(ev.out, MessageArgument(ev.out)) = UnderlyingMessage
    /\ (ev.op = "join" /\ ev.out = "NO_CHANNEL") => ev.at = "fetch-failed"

\* C15: every error of the fixed code set that a call returns has a defined,
\* non-empty message.
C15_ErrorsHaveMessages ==
    ev.out \in ErrorCodes
    => ErrorMessage(ev.out, MessageArgument(ev.out)) \notin {Undefined, ""}

\* C16: on a Ready connection, pause of a player that is not Paused sends a
\* pause request and returns success exactly when the player is Paused by
\* it, staying pending otherwise; a pending pause ends only with the
\* player's transition to Paused; unpause of a Paused player sends a resume
\* request and returns with the player Playing.  So whenever pause returns
\* success the player is Paused, and whenever unpause returns success it is
\* not Paused.
C16_PauseCompletion ==
    [][/\ \A s \in Sessions :
             /\ (/\ CallStep("pause", s)
                 /\ SessionReady(s)
                 /\ player[s] # 0
                 /\ pstatus[player[s]] # "paused")
                => /\ ev'.req = "pause"
                   /\ ev'.out \in {"ok", "pending"}
                   /\ ev'.out = "ok" <=> pstatus'[player[s]] = "paused"
             /\ (/\ CallStep("unpause", s)
                 /\ SessionReady(s)
                 /\ player[s] # 0
                 /\ pstatus[player[s]] = "paused")
                => /\ ev'.req = "resume"
                   /\ ev'.out = "ok"
                   /\ pstatus'[player[s]] = "playing"
             /\ (CallStep("pause", s) /\ ev'.out = "ok")
                => pstatus'[player[s]] = "paused"
             /\ (CallStep("unpause", s) /\ ev'.out = "ok")
                => pstatus'[player[s]] # "paused"
       /\ \A p \in PlayIds :
             (pwait[p] /\ ~pwait'[p]) => pstatus'[p] = "paused"]_vars

\* C16 witness: a pause has just paused the player of the session's second
\* play, which had reached Playing.
C16_Witness ==
    /\ ev.op = "pause" /\ ev.out = "ok" /\ ev.req = "pause"
    /\ SessionReady("s1")
    /\ player["s1"] = 2
    /\ pstatus[2] = "paused"
    /\ elog[2] = <<"playing">>

\* isPaused changes nothing; it fails with `whenNone` without a connection of
\* the guild and with CONNECTION_NOT_READY with one that is not Ready; on a
\* Ready connection after a play it returns whether the session's player is
\* Paused.  A pause that returns success leaves the player Paused and an
\* unpause that returns success leaves it not Paused, so that isPaused then
\* answers true after the one and false after the other.
IsPausedSteps(whenNone) ==
    \A s \in Sessions :
        /\ CallStep("isPaused", s)
           => /\ UNCHANGED <<sessionVars, connVars, playerVars>>
              /\ IF NoConnection(s) THEN ev'.out = whenNone
                 ELSE IF ~SessionReady(s) THEN ev'.out = "CONNECTION_NOT_READY"
                 ELSE player[s] # 0
                      => /\ ev'.out = "ok"
                         /\ ev'.val = (pstatus[player[s]] = "paused")
        /\ (CallStep("pause", s) /\ ev'.out = "ok")
           => SessionReady(s)' /\ pstatus'[player'[s]] = "paused"
        /\ (CallStep("unpause", s) /\ ev'.out = "ok")
           => SessionReady(s)' /\ pstatus'[player'[s]] # "paused"

GuardedOps == {"play", "pause", "unpause", "isPaused", "getVolume", "setVolume"}

\* A guard of op fails for s: the guild has no Ready connection, or the
\* operation needs a resource and the session has none.
GuardFails(op, s) ==
    \/ ~SessionReady(s)
    \/ op \in {"getVolume", "setVolume"} /\ resource[s] = 0

\* C18: a guarded operation whose guard fails returns one of the guards'
\* codes in the call (it is not left pending), sends nothing to the library
\* and changes nothing: guildId, the handles, every player's status and
\* armed listeners, the pending pauses, the volume and the connection with
\* its subscription are as before.  The same frame holds for every call of
\* these operations that returns a code of the set.
C18_FailedGuardFrame ==
    [][\A s \in Sessions, op \in GuardedOps :
          /\ (CallStep(op, s) /\ GuardFails(op, s))
             => /\ ev'.out \in {"NO_CONNECTION", "CONNECTION_NOT_READY", "NO_RESOURCE"}
                /\ ev'.req = "none"
                /\ UNCHANGED <<sessionVars, jres, connVars, playerVars>>
          /\ (CallStep(op, s) /\ ev'.out \in ErrorCodes)
             => /\ ev'.req = "none"
                /\ UNCHANGED <<sessionVars, jres, connVars, playerVars>>]_vars

\* C18 witness: play has just failed with CONNECTION_NOT_READY on a session
\* that holds the handles of an earlier play, whose connection has left
\* Ready; the earlier player is still the subscribed one.
C18_Witness ==
    /\ ev.op = "play" /\ ev.out = "CONNECTION_NOT_READY" /\ ev.req = "none"
    /\ cstatus["g1"] = "disconnected"
    /\ player["s1"] = 1 /\ resource["s1"] = 1
    /\ csub["g1"] = 1
    /\ nextPlay = 2

\* C19: whenever a join of a session has just returned success, the guild's
\* connection is Ready and joined to the session's own channel.
C19_JoinedOwnChannel ==
    \A s \in Sessions :
        (ev.op = "join" /\ s \in ev.who /\ ev.out = "ok")
        => /\ GuildReady(guildId[s])
           /\ cchannel[guildId[s]] = channelId[s]

\* C20 as the spec states it: from a successful destroy on a session until a
\* join on that session completes successfully, every guarded operation on
\* it fails with a code of the set.
C20_FailAfterDestroy ==
    [][\A s \in Sessions, op \in GuardedOps :
          (s \in destroyed /\ CallStep(op, s)) => ev'.out \in ErrorCodes]_vars

\* What the readiness guard fails with for s.
NotReadyCode(s) ==
    IF NoConnection(s) /\ variant = "promise"
    THEN "NO_CONNECTION" ELSE "CONNECTION_NOT_READY"

\* C20 amended: a successful destroy leaves the session's guild without a
\* Ready connection, and for as long as it has none every guarded operation
\* on the session fails with the readiness guard's code and leaves the stale
\* handles alone; a guarded operation on a destroyed session returns
\* anything else only with the guild's connection Ready again.  The guild
\* gets a Ready connection again only by the Ready event of a connection
\* that a join requested, whether or not that join is the one that returns.
C20_FailWhileNotReady ==
    [][\A s \in Sessions :
          /\ (CallStep("destroy", s) /\ ev'.out = "ok")
             => s \in destroyed' /\ ~SessionReady(s)'
          /\ \A op \in GuardedOps :
                /\ (CallStep(op, s) /\ ~SessionReady(s))
                   => /\ ev'.out = NotReadyCode(s)
                      /\ UNCHANGED <<player, resource>>
                /\ (s \in destroyed /\ CallStep(op, s) /\ ev'.out \notin ErrorCodes)
                   => SessionReady(s)
          /\ (s \in destroyed /\ s \notin destroyed') => JoinReturns(s, "ok")
          /\ (guildId[s] # Null /\ ~SessionReady(s) /\ SessionReady(s)')
             => /\ cstatus[guildId[s]] = "signalling"
                /\ ev'.op \in {"none", "join"}]_vars

\* C20 witness: no join of the session has completed successfully since its
\* destroy and none is under way, the guild's connection is Ready all the
\* same, and a pause has just succeeded on the session's player.
C20_Witness ==
    /\ "s1" \in destroyed
    /\ ev.op = "pause" /\ ev.out = "ok"
    /\ SessionReady("s1")
    /\ player["s1"] = 1 /\ pstatus[1] = "paused"
    /\ jres["s1"] = "idle"

====
